---- MODULE Spec2Model ----
(***************************************************************************)
(* Model of the bus-mapping crate: the word / address / opcode /           *)
(* instruction decoders (evm.rs, evm/opcodes.rs), the conversion of one    *)
(* parsed snapshot into an ExecutionStep (evm/exec_step.rs) and the        *)
(* ingestion of a whole trace as the crate's test drives it.               *)
(*                                                                         *)
(* A text is a sequence of one-character strings.  A BigUint is the        *)
(* sequence of its hexadecimal digit values, most significant first,       *)
(* without leading zeros (zero is the empty sequence), so that values of   *)
(* any width are represented exactly.  A Result is a record with a tag:    *)
(* "ok", "err", or "panic" for an abort of the program.                    *)
(***************************************************************************)
EXTENDS Integers, Sequences, FiniteSets, TLC

VARIABLES
    text,     \* codec: the text handed to a decoder
    call,     \* codec: which decoder ran ("none" before any)
    out,      \* codec: what the decoder returned
    input,    \* ingestion: the trace elements the iterator has handed out
    phase,    \* ingestion: "ingest" or "done" ("codec" in the decoder runs)
    acc,      \* ingestion: the ExecutionSteps collected so far
    result,   \* ingestion: what collect() returned ("none" while running)
    dsteps,   \* derivation: the ExecutionSteps walked and found consistent
    ops,      \* derivation: the operation stream emitted so far
    dres,     \* derivation: its outcome ("none" while it walks)
    views,    \* bus mapping: the grouped views ("none" until built)
    snap,     \* single step: the parsed snapshot handed to try_from
    ctr,      \* single step: the counter supplied with it
    conv,     \* single step: the outcomes of its conversions, in order
    entries,  \* bus mapping: BusMapping::entries
    got,      \* bus mapping: what the last Index read returned
    par       \* two ingestions: the state of each, by trace

vars ==
    <<text, call, out, input, phase, acc, result, dsteps, ops, dres, views,
      snap, ctr, conv, entries, got, par>>

codecVars == <<text, call, out>>
ingestVars == <<input, phase, acc, result>>
deriveVars == <<dsteps, ops, dres, views>>
stepVars == <<snap, ctr, conv>>
busVars == <<entries, got>>
parVars == <<par>>

-----------------------------------------------------------------------------
(* Results and options *)

Ok(v) == [tag |-> "ok", val |-> v]
Err(e) == [tag |-> "err", err |-> e]
Panic == [tag |-> "panic"]
NoResult == [tag |-> "none"]

None == {}
Some(v) == {v}

\* the variables of a part of the model that a run does not use
CodecIdle == text = <<>> /\ call = "none" /\ out = NoResult
IngestIdle == input = <<>> /\ acc = <<>> /\ result = NoResult
DeriveIdle == dsteps = <<>> /\ ops = <<>> /\ dres = NoResult /\ views = NoResult
StepIdle == snap = NoResult /\ ctr = 0 /\ conv = <<>>
BusIdle == entries = <<>> /\ got = NoResult
ParIdle == par = <<>>

-----------------------------------------------------------------------------
(* Widths *)

\* usize is 8 bytes on the 64-bit targets the crate is built for.
UsizeBytes == 8
\* The canonical word is 32 bytes.
WordBytes == 32

-----------------------------------------------------------------------------
(* BigUint::from_str_radix(s, 16) *)

HexDigit(c) ==
    CASE c = "0" -> 0 [] c = "1" -> 1 [] c = "2" -> 2 [] c = "3" -> 3
      [] c = "4" -> 4 [] c = "5" -> 5 [] c = "6" -> 6 [] c = "7" -> 7
      [] c = "8" -> 8 [] c = "9" -> 9
      [] c \in {"a", "A"} -> 10 [] c \in {"b", "B"} -> 11
      [] c \in {"c", "C"} -> 12 [] c \in {"d", "D"} -> 13
      [] c \in {"e", "E"} -> 14 [] c \in {"f", "F"} -> 15
      [] OTHER -> 255

\* a digit sequence kept as written, leading zeros included
Normalized_Keep(ds) == ds

\* BigUint keeps no leading zero digits
Normalized(ds) ==
    LET nz == {i \in 1..Len(ds) : ds[i] # 0}
    IN  IF nz = {} THEN <<>>
        ELSE SubSeq(ds, CHOOSE i \in nz : \A j \in nz : i <= j, Len(ds))

from_str_radix(s) ==
    IF s = <<>> THEN Err("Empty")
    ELSE IF \E i \in 1..Len(s) : HexDigit(s[i]) >= 16 THEN Err("InvalidDigit")
    ELSE Ok(Normalized([i \in 1..Len(s) |-> HexDigit(s[i])]))

\* TryFrom<BigUint> for usize
FitsUsize(n) == Len(n) <= 2 * UsizeBytes

-----------------------------------------------------------------------------
(* evm.rs: EvmWord and MemAddress *)

EvmWord_from_str(s) ==
    LET r == from_str_radix(s)
    IN  IF r.tag = "err" THEN Err("EvmWordParsing") ELSE Ok(r.val)

MemAddress_from_str(s) ==
    LET r == from_str_radix(s)
    IN  IF r.tag = "err" THEN Err("EvmWordParsing")
        ELSE IF FitsUsize(r.val) THEN Ok(r.val)
        ELSE Panic

-----------------------------------------------------------------------------
(* evm/opcodes.rs: Opcode *)

\* the named constants used below
Opcode_STOP == 0
Opcode_ADD == 1
Opcode_POP == 80
Opcode_MLOAD == 81
Opcode_MSTORE == 82
Opcode_JUMPDEST == 91
Opcode_PUSH1 == 96

\* the match compares the whole text with each mnemonic, character by character
Opcode_from_str(t) ==
        CASE
            t = <<"S", "T", "O", "P">> -> Ok(0)
         [] t = <<"A", "D", "D">> -> Ok(1)
         [] t = <<"M", "U", "L">> -> Ok(2)
         [] t = <<"S", "U", "B">> -> Ok(3)
         [] t = <<"D", "I", "V">> -> Ok(4)
         [] t = <<"S", "D", "I", "V">> -> Ok(5)
         [] t = <<"M", "O", "D">> -> Ok(6)
         [] t = <<"S", "M", "O", "D">> -> Ok(7)
         [] t = <<"A", "D", "D", "M", "O", "D">> -> Ok(8)
         [] t = <<"M", "U", "L", "M", "O", "D">> -> Ok(9)
         [] t = <<"E", "X", "P">> -> Ok(10)
         [] t = <<"S", "I", "G", "N", "E", "X", "T", "E", "N", "D">> -> Ok(11)
         [] t = <<"L", "T">> -> Ok(16)
         [] t = <<"G", "T">> -> Ok(17)
         [] t = <<"S", "L", "T">> -> Ok(18)
         [] t = <<"S", "G", "T">> -> Ok(19)
         [] t = <<"E", "Q">> -> Ok(20)
         [] t = <<"I", "S", "Z", "E", "R", "O">> -> Ok(21)
         [] t = <<"A", "N", "D">> -> Ok(22)
         [] t = <<"O", "R">> -> Ok(23)
         [] t = <<"X", "O", "R">> -> Ok(24)
         [] t = <<"N", "O", "T">> -> Ok(25)
         [] t = <<"B", "Y", "T", "E">> -> Ok(26)
         [] t = <<"C", "A", "L", "L", "D", "A", "T", "A", "L", "O", "A", "D">> -> Ok(53)
         [] t = <<"C", "A", "L", "L", "D", "A", "T", "A", "S", "I", "Z", "E">> -> Ok(54)
         [] t = <<"C", "A", "L", "L", "D", "A", "T", "A", "C", "O", "P", "Y">> -> Ok(55)
         [] t = <<"C", "O", "D", "E", "S", "I", "Z", "E">> -> Ok(56)
         [] t = <<"C", "O", "D", "E", "C", "O", "P", "Y">> -> Ok(57)
         [] t = <<"S", "H", "L">> -> Ok(27)
         [] t = <<"S", "H", "R">> -> Ok(28)
         [] t = <<"S", "A", "R">> -> Ok(29)
         [] t = <<"P", "O", "P">> -> Ok(80)
         [] t = <<"M", "L", "O", "A", "D">> -> Ok(81)
         [] t = <<"M", "S", "T", "O", "R", "E">> -> Ok(82)
         [] t = <<"M", "S", "T", "O", "R", "E", "8">> -> Ok(83)
         [] t = <<"J", "U", "M", "P">> -> Ok(86)
         [] t = <<"J", "U", "M", "P", "I">> -> Ok(87)
         [] t = <<"P", "C">> -> Ok(88)
         [] t = <<"M", "S", "I", "Z", "E">> -> Ok(89)
         [] t = <<"J", "U", "M", "P", "D", "E", "S", "T">> -> Ok(91)
         [] t = <<"P", "U", "S", "H", "1">> -> Ok(96)
         [] t = <<"P", "U", "S", "H", "2">> -> Ok(97)
         [] t = <<"P", "U", "S", "H", "3">> -> Ok(98)
         [] t = <<"P", "U", "S", "H", "4">> -> Ok(99)
         [] t = <<"P", "U", "S", "H", "5">> -> Ok(100)
         [] t = <<"P", "U", "S", "H", "6">> -> Ok(101)
         [] t = <<"P", "U", "S", "H", "7">> -> Ok(102)
         [] t = <<"P", "U", "S", "H", "8">> -> Ok(103)
         [] t = <<"P", "U", "S", "H", "9">> -> Ok(104)
         [] t = <<"P", "U", "S", "H", "1", "0">> -> Ok(105)
         [] t = <<"P", "U", "S", "H", "1", "1">> -> Ok(106)
         [] t = <<"P", "U", "S", "H", "1", "2">> -> Ok(107)
         [] t = <<"P", "U", "S", "H", "1", "3">> -> Ok(108)
         [] t = <<"P", "U", "S", "H", "1", "4">> -> Ok(109)
         [] t = <<"P", "U", "S", "H", "1", "5">> -> Ok(110)
         [] t = <<"P", "U", "S", "H", "1", "6">> -> Ok(111)
         [] t = <<"P", "U", "S", "H", "1", "7">> -> Ok(112)
         [] t = <<"P", "U", "S", "H", "1", "8">> -> Ok(113)
         [] t = <<"P", "U", "S", "H", "1", "9">> -> Ok(114)
         [] t = <<"P", "U", "S", "H", "2", "0">> -> Ok(115)
         [] t = <<"P", "U", "S", "H", "2", "1">> -> Ok(116)
         [] t = <<"P", "U", "S", "H", "2", "2">> -> Ok(117)
         [] t = <<"P", "U", "S", "H", "2", "3">> -> Ok(118)
         [] t = <<"P", "U", "S", "H", "2", "4">> -> Ok(119)
         [] t = <<"P", "U", "S", "H", "2", "5">> -> Ok(120)
         [] t = <<"P", "U", "S", "H", "2", "6">> -> Ok(121)
         [] t = <<"P", "U", "S", "H", "2", "7">> -> Ok(122)
         [] t = <<"P", "U", "S", "H", "2", "8">> -> Ok(123)
         [] t = <<"P", "U", "S", "H", "2", "9">> -> Ok(124)
         [] t = <<"P", "U", "S", "H", "3", "0">> -> Ok(125)
         [] t = <<"P", "U", "S", "H", "3", "1">> -> Ok(126)
         [] t = <<"P", "U", "S", "H", "3", "2">> -> Ok(127)
         [] t = <<"D", "U", "P", "1">> -> Ok(128)
         [] t = <<"D", "U", "P", "2">> -> Ok(129)
         [] t = <<"D", "U", "P", "3">> -> Ok(130)
         [] t = <<"D", "U", "P", "4">> -> Ok(131)
         [] t = <<"D", "U", "P", "5">> -> Ok(132)
         [] t = <<"D", "U", "P", "6">> -> Ok(133)
         [] t = <<"D", "U", "P", "7">> -> Ok(134)
         [] t = <<"D", "U", "P", "8">> -> Ok(135)
         [] t = <<"D", "U", "P", "9">> -> Ok(136)
         [] t = <<"D", "U", "P", "1", "0">> -> Ok(137)
         [] t = <<"D", "U", "P", "1", "1">> -> Ok(138)
         [] t = <<"D", "U", "P", "1", "2">> -> Ok(139)
         [] t = <<"D", "U", "P", "1", "3">> -> Ok(140)
         [] t = <<"D", "U", "P", "1", "4">> -> Ok(141)
         [] t = <<"D", "U", "P", "1", "5">> -> Ok(142)
         [] t = <<"D", "U", "P", "1", "6">> -> Ok(143)
         [] t = <<"S", "W", "A", "P", "1">> -> Ok(144)
         [] t = <<"S", "W", "A", "P", "2">> -> Ok(145)
         [] t = <<"S", "W", "A", "P", "3">> -> Ok(146)
         [] t = <<"S", "W", "A", "P", "4">> -> Ok(147)
         [] t = <<"S", "W", "A", "P", "5">> -> Ok(148)
         [] t = <<"S", "W", "A", "P", "6">> -> Ok(149)
         [] t = <<"S", "W", "A", "P", "7">> -> Ok(150)
         [] t = <<"S", "W", "A", "P", "8">> -> Ok(151)
         [] t = <<"S", "W", "A", "P", "9">> -> Ok(152)
         [] t = <<"S", "W", "A", "P", "1", "0">> -> Ok(153)
         [] t = <<"S", "W", "A", "P", "1", "1">> -> Ok(154)
         [] t = <<"S", "W", "A", "P", "1", "2">> -> Ok(155)
         [] t = <<"S", "W", "A", "P", "1", "3">> -> Ok(156)
         [] t = <<"S", "W", "A", "P", "1", "4">> -> Ok(157)
         [] t = <<"S", "W", "A", "P", "1", "5">> -> Ok(158)
         [] t = <<"S", "W", "A", "P", "1", "6">> -> Ok(159)
         [] t = <<"R", "E", "T", "U", "R", "N">> -> Ok(243)
         [] t = <<"R", "E", "V", "E", "R", "T">> -> Ok(253)
         [] t = <<"I", "N", "V", "A", "L", "I", "D">> -> Ok(254)
         [] OTHER -> Err("OpcodeParsing")

-----------------------------------------------------------------------------
(* evm.rs: Instruction *)

\* a named constant of the opcode type: its identifier and its byte
OpcodeConstant(name, byte) == [name |-> name, byte |-> byte]

\* every `pub const NAME: Opcode = Opcode(0x..)`, core then external
OpcodeConstants ==
    {OpcodeConstant(<<"S", "T", "O", "P">>, 0),
     OpcodeConstant(<<"A", "D", "D">>, 1),
     OpcodeConstant(<<"M", "U", "L">>, 2),
     OpcodeConstant(<<"S", "U", "B">>, 3),
     OpcodeConstant(<<"D", "I", "V">>, 4),
     OpcodeConstant(<<"S", "D", "I", "V">>, 5),
     OpcodeConstant(<<"M", "O", "D">>, 6),
     OpcodeConstant(<<"S", "M", "O", "D">>, 7),
     OpcodeConstant(<<"A", "D", "D", "M", "O", "D">>, 8),
     OpcodeConstant(<<"M", "U", "L", "M", "O", "D">>, 9),
     OpcodeConstant(<<"E", "X", "P">>, 10),
     OpcodeConstant(<<"S", "I", "G", "N", "E", "X", "T", "E", "N", "D">>, 11),
     OpcodeConstant(<<"L", "T">>, 16),
     OpcodeConstant(<<"G", "T">>, 17),
     OpcodeConstant(<<"S", "L", "T">>, 18),
     OpcodeConstant(<<"S", "G", "T">>, 19),
     OpcodeConstant(<<"E", "Q">>, 20),
     OpcodeConstant(<<"I", "S", "Z", "E", "R", "O">>, 21),
     OpcodeConstant(<<"A", "N", "D">>, 22),
     OpcodeConstant(<<"O", "R">>, 23),
     OpcodeConstant(<<"X", "O", "R">>, 24),
     OpcodeConstant(<<"N", "O", "T">>, 25),
     OpcodeConstant(<<"B", "Y", "T", "E">>, 26),
     OpcodeConstant(<<"C", "A", "L", "L", "D", "A", "T", "A", "L", "O", "A", "D">>, 53),
     OpcodeConstant(<<"C", "A", "L", "L", "D", "A", "T", "A", "S", "I", "Z", "E">>, 54),
     OpcodeConstant(<<"C", "A", "L", "L", "D", "A", "T", "A", "C", "O", "P", "Y">>, 55),
     OpcodeConstant(<<"C", "O", "D", "E", "S", "I", "Z", "E">>, 56),
     OpcodeConstant(<<"C", "O", "D", "E", "C", "O", "P", "Y">>, 57),
     OpcodeConstant(<<"S", "H", "L">>, 27),
     OpcodeConstant(<<"S", "H", "R">>, 28),
     OpcodeConstant(<<"S", "A", "R">>, 29),
     OpcodeConstant(<<"P", "O", "P">>, 80),
     OpcodeConstant(<<"M", "L", "O", "A", "D">>, 81),
     OpcodeConstant(<<"M", "S", "T", "O", "R", "E">>, 82),
     OpcodeConstant(<<"M", "S", "T", "O", "R", "E", "8">>, 83),
     OpcodeConstant(<<"J", "U", "M", "P">>, 86),
     OpcodeConstant(<<"J", "U", "M", "P", "I">>, 87),
     OpcodeConstant(<<"P", "C">>, 88),
     OpcodeConstant(<<"M", "S", "I", "Z", "E">>, 89),
     OpcodeConstant(<<"J", "U", "M", "P", "D", "E", "S", "T">>, 91),
     OpcodeConstant(<<"P", "U", "S", "H", "1">>, 96),
     OpcodeConstant(<<"P", "U", "S", "H", "2">>, 97),
     OpcodeConstant(<<"P", "U", "S", "H", "3">>, 98),
     OpcodeConstant(<<"P", "U", "S", "H", "4">>, 99),
     OpcodeConstant(<<"P", "U", "S", "H", "5">>, 100),
     OpcodeConstant(<<"P", "U", "S", "H", "6">>, 101),
     OpcodeConstant(<<"P", "U", "S", "H", "7">>, 102),
     OpcodeConstant(<<"P", "U", "S", "H", "8">>, 103),
     OpcodeConstant(<<"P", "U", "S", "H", "9">>, 104),
     OpcodeConstant(<<"P", "U", "S", "H", "1", "0">>, 105),
     OpcodeConstant(<<"P", "U", "S", "H", "1", "1">>, 106),
     OpcodeConstant(<<"P", "U", "S", "H", "1", "2">>, 107),
     OpcodeConstant(<<"P", "U", "S", "H", "1", "3">>, 108),
     OpcodeConstant(<<"P", "U", "S", "H", "1", "4">>, 109),
     OpcodeConstant(<<"P", "U", "S", "H", "1", "5">>, 110),
     OpcodeConstant(<<"P", "U", "S", "H", "1", "6">>, 111),
     OpcodeConstant(<<"P", "U", "S", "H", "1", "7">>, 112),
     OpcodeConstant(<<"P", "U", "S", "H", "1", "8">>, 113),
     OpcodeConstant(<<"P", "U", "S", "H", "1", "9">>, 114),
     OpcodeConstant(<<"P", "U", "S", "H", "2", "0">>, 115),
     OpcodeConstant(<<"P", "U", "S", "H", "2", "1">>, 116),
     OpcodeConstant(<<"P", "U", "S", "H", "2", "2">>, 117),
     OpcodeConstant(<<"P", "U", "S", "H", "2", "3">>, 118),
     OpcodeConstant(<<"P", "U", "S", "H", "2", "4">>, 119),
     OpcodeConstant(<<"P", "U", "S", "H", "2", "5">>, 120),
     OpcodeConstant(<<"P", "U", "S", "H", "2", "6">>, 121),
     OpcodeConstant(<<"P", "U", "S", "H", "2", "7">>, 122),
     OpcodeConstant(<<"P", "U", "S", "H", "2", "8">>, 123),
     OpcodeConstant(<<"P", "U", "S", "H", "2", "9">>, 124),
     OpcodeConstant(<<"P", "U", "S", "H", "3", "0">>, 125),
     OpcodeConstant(<<"P", "U", "S", "H", "3", "1">>, 126),
     OpcodeConstant(<<"P", "U", "S", "H", "3", "2">>, 127),
     OpcodeConstant(<<"D", "U", "P", "1">>, 128),
     OpcodeConstant(<<"D", "U", "P", "2">>, 129),
     OpcodeConstant(<<"D", "U", "P", "3">>, 130),
     OpcodeConstant(<<"D", "U", "P", "4">>, 131),
     OpcodeConstant(<<"D", "U", "P", "5">>, 132),
     OpcodeConstant(<<"D", "U", "P", "6">>, 133),
     OpcodeConstant(<<"D", "U", "P", "7">>, 134),
     OpcodeConstant(<<"D", "U", "P", "8">>, 135),
     OpcodeConstant(<<"D", "U", "P", "9">>, 136),
     OpcodeConstant(<<"D", "U", "P", "1", "0">>, 137),
     OpcodeConstant(<<"D", "U", "P", "1", "1">>, 138),
     OpcodeConstant(<<"D", "U", "P", "1", "2">>, 139),
     OpcodeConstant(<<"D", "U", "P", "1", "3">>, 140),
     OpcodeConstant(<<"D", "U", "P", "1", "4">>, 141),
     OpcodeConstant(<<"D", "U", "P", "1", "5">>, 142),
     OpcodeConstant(<<"D", "U", "P", "1", "6">>, 143),
     OpcodeConstant(<<"S", "W", "A", "P", "1">>, 144),
     OpcodeConstant(<<"S", "W", "A", "P", "2">>, 145),
     OpcodeConstant(<<"S", "W", "A", "P", "3">>, 146),
     OpcodeConstant(<<"S", "W", "A", "P", "4">>, 147),
     OpcodeConstant(<<"S", "W", "A", "P", "5">>, 148),
     OpcodeConstant(<<"S", "W", "A", "P", "6">>, 149),
     OpcodeConstant(<<"S", "W", "A", "P", "7">>, 150),
     OpcodeConstant(<<"S", "W", "A", "P", "8">>, 151),
     OpcodeConstant(<<"S", "W", "A", "P", "9">>, 152),
     OpcodeConstant(<<"S", "W", "A", "P", "1", "0">>, 153),
     OpcodeConstant(<<"S", "W", "A", "P", "1", "1">>, 154),
     OpcodeConstant(<<"S", "W", "A", "P", "1", "2">>, 155),
     OpcodeConstant(<<"S", "W", "A", "P", "1", "3">>, 156),
     OpcodeConstant(<<"S", "W", "A", "P", "1", "4">>, 157),
     OpcodeConstant(<<"S", "W", "A", "P", "1", "5">>, 158),
     OpcodeConstant(<<"S", "W", "A", "P", "1", "6">>, 159),
     OpcodeConstant(<<"R", "E", "T", "U", "R", "N">>, 243),
     OpcodeConstant(<<"R", "E", "V", "E", "R", "T">>, 253),
     OpcodeConstant(<<"I", "N", "V", "A", "L", "I", "D">>, 254),
     OpcodeConstant(<<"S", "H", "A", "3">>, 32),
     OpcodeConstant(<<"A", "D", "D", "R", "E", "S", "S">>, 48),
     OpcodeConstant(<<"B", "A", "L", "A", "N", "C", "E">>, 49),
     OpcodeConstant(<<"S", "E", "L", "F", "B", "A", "L", "A", "N", "C", "E">>, 71),
     OpcodeConstant(<<"O", "R", "I", "G", "I", "N">>, 50),
     OpcodeConstant(<<"C", "A", "L", "L", "E", "R">>, 51),
     OpcodeConstant(<<"C", "A", "L", "L", "V", "A", "L", "U", "E">>, 52),
     OpcodeConstant(<<"G", "A", "S", "P", "R", "I", "C", "E">>, 58),
     OpcodeConstant(<<"E", "X", "T", "C", "O", "D", "E", "S", "I", "Z", "E">>, 59),
     OpcodeConstant(<<"E", "X", "T", "C", "O", "D", "E", "C", "O", "P", "Y">>, 60),
     OpcodeConstant(<<"E", "X", "T", "C", "O", "D", "E", "H", "A", "S", "H">>, 63),
     OpcodeConstant(<<"R", "E", "T", "U", "R", "N", "D", "A", "T", "A", "S", "I", "Z", "E">>, 61),
     OpcodeConstant(<<"R", "E", "T", "U", "R", "N", "D", "A", "T", "A", "C", "O", "P", "Y">>, 62),
     OpcodeConstant(<<"B", "L", "O", "C", "K", "H", "A", "S", "H">>, 64),
     OpcodeConstant(<<"C", "O", "I", "N", "B", "A", "S", "E">>, 65),
     OpcodeConstant(<<"T", "I", "M", "E", "S", "T", "A", "M", "P">>, 66),
     OpcodeConstant(<<"N", "U", "M", "B", "E", "R">>, 67),
     OpcodeConstant(<<"D", "I", "F", "F", "I", "C", "U", "L", "T", "Y">>, 68),
     OpcodeConstant(<<"G", "A", "S", "L", "I", "M", "I", "T">>, 69),
     OpcodeConstant(<<"S", "L", "O", "A", "D">>, 84),
     OpcodeConstant(<<"S", "S", "T", "O", "R", "E">>, 85),
     OpcodeConstant(<<"G", "A", "S">>, 90),
     OpcodeConstant(<<"L", "O", "G", "0">>, 160),
     OpcodeConstant(<<"L", "O", "G", "1">>, 161),
     OpcodeConstant(<<"L", "O", "G", "2">>, 162),
     OpcodeConstant(<<"L", "O", "G", "3">>, 163),
     OpcodeConstant(<<"L", "O", "G", "4">>, 164),
     OpcodeConstant(<<"C", "R", "E", "A", "T", "E">>, 240),
     OpcodeConstant(<<"C", "R", "E", "A", "T", "E", "2">>, 245),
     OpcodeConstant(<<"C", "A", "L", "L">>, 241),
     OpcodeConstant(<<"C", "A", "L", "L", "C", "O", "D", "E">>, 242),
     OpcodeConstant(<<"D", "E", "L", "E", "G", "A", "T", "E", "C", "A", "L", "L">>, 244),
     OpcodeConstant(<<"S", "T", "A", "T", "I", "C", "C", "A", "L", "L">>, 250),
     OpcodeConstant(<<"S", "U", "I", "C", "I", "D", "E">>, 255),
     OpcodeConstant(<<"C", "H", "A", "I", "N", "I", "D">>, 70)}

\* the body is unimplemented!(): the call aborts for every opcode
Opcode_target_and_rw(op) == Panic

IsWhitespace(c) == c \in {" ", "\t", "\n"}

\* str::split_whitespace, collected: the maximal runs of non-whitespace
WordStarts(s) ==
    {i \in 1..Len(s) :
        ~IsWhitespace(s[i]) /\ (i = 1 \/ IsWhitespace(s[i - 1]))}

WordEnds(s) ==
    {i \in 1..Len(s) :
        ~IsWhitespace(s[i]) /\ (i = Len(s) \/ IsWhitespace(s[i + 1]))}

Nth(S, k) == CHOOSE e \in S : Cardinality({x \in S : x <= e}) = k

split_whitespace(s) ==
    [k \in 1..Cardinality(WordStarts(s)) |->
        SubSeq(s, Nth(WordStarts(s), k), Nth(WordEnds(s), k))]

Instruction_new(op, val) == [opcode |-> op, assoc_value |-> val]

\* the same decoder looking the mnemonic up before it parses the immediate
Instruction_from_str_OpcodeFirst(s) ==
    LET words == split_whitespace(s)
        val == IF Len(words) >= 2 THEN EvmWord_from_str(words[2])
               ELSE Ok(<<>>)
        op == Opcode_from_str(words[1])
    IN  IF Len(words) = 0 THEN Panic
        ELSE IF op.tag = "err" THEN op
        ELSE IF val.tag = "err" THEN val
        ELSE Ok(Instruction_new(op.val,
                   IF Len(words) >= 2 THEN Some(val.val) ELSE None))

Instruction_from_str(s) ==
    LET words == split_whitespace(s)
        val == IF Len(words) >= 2 THEN EvmWord_from_str(words[2])
               ELSE Ok(<<>>)
        op == Opcode_from_str(words[1])
    IN  IF val.tag = "err" THEN val
        ELSE IF Len(words) = 0 THEN Panic
        ELSE IF op.tag = "err" THEN op
        ELSE Ok(Instruction_new(op.val,
                   IF Len(words) >= 2 THEN Some(val.val) ELSE None))

\* delegates to the opcode's lookup
Instruction_target_and_rw(ins) == Opcode_target_and_rw(ins.opcode)

-----------------------------------------------------------------------------
(* Input texts *)

MaxLen == 2

HexAlphabet == {"0", "1", "f", "z"}

TextsOfLen(n) == [1..n -> HexAlphabet]

\* every text over HexAlphabet of at most MaxLen characters
ShortTexts == UNION {TextsOfLen(n) : n \in 0..MaxLen}

Repeat(c, n) == [i \in 1..n |-> c]

\* the largest usize, the smallest value above it, and the same for words
MaxAddrText == Repeat("f", 2 * UsizeBytes)
OverAddrText == <<"1">> \o Repeat("0", 2 * UsizeBytes)
MaxWordText == Repeat("f", 2 * WordBytes)
OverWordText == <<"1">> \o Repeat("0", 2 * WordBytes)

LongTexts ==
    {MaxAddrText, OverAddrText, MaxWordText, OverWordText,
     <<"0">> \o MaxAddrText, <<"0">> \o MaxWordText, <<"f">> \o MaxWordText}

Mnemonics ==
    {<<"J", "U", "M", "P", "D", "E", "S", "T">>,
     <<"P", "U", "S", "H", "1">>,
     <<"P", "U", "S", "H", "3", "2">>,
     <<"A", "D", "D">>,
     <<"M", "L", "O", "A", "D">>,
     <<"S", "L", "O", "A", "D">>,
     <<"F", "O", "O">>,
     <<>>}

\* [ws] mnemonic [ws immediate [ws extra]] [ws]
InstrTexts ==
    {lead \o m \o rest \o trail :
        lead \in {<<>>, <<" ">>}, m \in Mnemonics,
        rest \in {<<>>} \cup {<<" ">> \o t : t \in ShortTexts \ {<<>>}}
                 \cup {<<" ">> \o t \o <<" ", "z">> : t \in {<<"1">>, <<"z">>}},
        trail \in {<<>>, <<" ">>}}
      \cup {<<"\t">>, <<"P", "U", "S", "H", "1">> \o <<"\t", "4", "0">>,
            <<"P", "U", "S", "H", "3", "2">> \o <<" ">> \o OverWordText}

\* the identifier of every opcode constant, as a mnemonic text
ConstantNames == {c.name : c \in OpcodeConstants}

CodecTexts ==
    ShortTexts \cup LongTexts \cup InstrTexts \cup Mnemonics \cup ConstantNames

-----------------------------------------------------------------------------
(* The decoders, each applied to one text *)

CodecInit ==
    /\ text \in CodecTexts
    /\ call = "none"
    /\ out = NoResult
    /\ input = <<>>
    /\ phase = "codec"
    /\ acc = <<>>
    /\ result = NoResult
    /\ dsteps = <<>>
    /\ ops = <<>>
    /\ dres = NoResult
    /\ views = NoResult
    /\ StepIdle /\ BusIdle /\ ParIdle

DecodeWord ==
    /\ call = "none"
    /\ call' = "EvmWord"
    /\ out' = EvmWord_from_str(text)
    /\ UNCHANGED <<text, ingestVars, deriveVars, stepVars, busVars,
                   parVars>>

DecodeAddress ==
    /\ call = "none"
    /\ call' = "MemAddress"
    /\ out' = MemAddress_from_str(text)
    /\ UNCHANGED <<text, ingestVars, deriveVars, stepVars, busVars,
                   parVars>>

DecodeOpcode ==
    /\ call = "none"
    /\ call' = "Opcode"
    /\ out' = Opcode_from_str(text)
    /\ UNCHANGED <<text, ingestVars, deriveVars, stepVars, busVars,
                   parVars>>

DecodeInstruction ==
    /\ call = "none"
    /\ call' = "Instruction"
    /\ out' = Instruction_from_str(text)
    /\ UNCHANGED <<text, ingestVars, deriveVars, stepVars, busVars,
                   parVars>>

\* Opcode::target_and_rw on an opcode that Opcode::from_str returned
LookupOpcode ==
    /\ call = "Opcode"
    /\ out.tag = "ok"
    /\ call' = "Opcode::target_and_rw"
    /\ out' = Opcode_target_and_rw(out.val)
    /\ UNCHANGED <<text, ingestVars, deriveVars, stepVars, busVars,
                   parVars>>

\* Instruction::target_and_rw on an instruction that from_str returned
LookupInstruction ==
    /\ call = "Instruction"
    /\ out.tag = "ok"
    /\ call' = "Instruction::target_and_rw"
    /\ out' = Instruction_target_and_rw(out.val)
    /\ UNCHANGED <<text, ingestVars, deriveVars, stepVars, busVars,
                   parVars>>

CodecNext ==
    \/ DecodeWord
    \/ DecodeAddress
    \/ DecodeOpcode
    \/ DecodeInstruction
    \/ LookupOpcode
    \/ LookupInstruction

SpecCodec == CodecInit /\ [][CodecNext]_vars

-----------------------------------------------------------------------------
(* evm/exec_step.rs: ExecutionStep *)

ExecutionStep_new(memory, stack, opcode, pc, gc) ==
    [memory |-> memory, stack |-> stack, opcode |-> opcode, pc |-> pc,
     gc |-> gc]

\* BTreeMap::insert: a later value for the same key replaces the earlier one
BTreeInsert(map, k, v) ==
    [x \in DOMAIN map \cup {k} |-> IF x = k THEN v ELSE map[x]]

EmptyMap == [x \in {} |-> 0]

\* The memory part: the entries of the HashMap in the order `order` its
\* iterator yields them; the first entry that fails ends the loop.
RECURSIVE MemoryPart(_, _, _, _)
MemoryPart(memory, order, i, mem_map) ==
    IF i > Len(order) THEN Ok(mem_map)
    ELSE LET a == MemAddress_from_str(order[i])
             w == EvmWord_from_str(memory[order[i]])
         IN  IF a.tag # "ok" THEN a
             ELSE IF w.tag # "ok" THEN w
             ELSE MemoryPart(memory, order, i + 1,
                             BTreeInsert(mem_map, a.val, w.val))

\* The stack part: the words in order; the first that fails ends the loop.
StackPart(stack) ==
    IF \E i \in 1..Len(stack) : EvmWord_from_str(stack[i]).tag = "err"
    THEN Err("EvmWordParsing")
    ELSE Ok([i \in 1..Len(stack) |-> EvmWord_from_str(stack[i]).val])

\* ExecutionStep::try_from((&parsed, gc))
try_from(parsed, gc, order) ==
    LET m == MemoryPart(parsed.memory, order, 1, EmptyMap)
        st == StackPart(parsed.stack)
        ins == Instruction_from_str(parsed.opcode)
    IN  IF m.tag # "ok" THEN m
        ELSE IF st.tag # "ok" THEN st
        ELSE IF ins.tag # "ok" THEN ins
        ELSE Ok(ExecutionStep_new(m.val, st.val, ins.val, parsed.pc, gc))

\* the orders in which a HashMap's iterator may yield its keys
IterOrders(memory) ==
    {o \in [1..Cardinality(DOMAIN memory) -> DOMAIN memory] :
        \A i, j \in DOMAIN o : i # j => o[i] # o[j]}

-----------------------------------------------------------------------------
(* Parsed snapshots *)

MaxTrace == 2
MaxStack == 1

StackTexts == {<<"1">>, <<"z", "z">>}

Stacks == UNION {[1..n -> StackTexts] : n \in 0..MaxStack}

Memories ==
    {EmptyMap,
     (<<"0">> :> <<"1">>),
     (<<"0">> :> <<"z", "z">>),
     (OverAddrText :> <<"z", "z">>),
     (<<"0">> :> <<"1">>) @@ (<<"0", "0">> :> <<"f">>)}

Opcodes ==
    {<<"J", "U", "M", "P", "D", "E", "S", "T">>,
     <<"A", "D", "D">>,
     <<"P", "U", "S", "H", "1">> \o <<" ", "f">>,
     <<"F", "O", "O">>,
     <<>>}

ProgramCounters == {53}

ParsedExecutionSteps ==
    [memory : Memories, stack : Stacks, opcode : Opcodes,
     pc : ProgramCounters]

-----------------------------------------------------------------------------
(* Ingestion of a trace, as tests::parse_execution_trace drives it:        *)
(*   trace.iter().enumerate()                                              *)
(*        .map(|(idx, step)| ExecutionStep::try_from((step, idx)))         *)
(*        .collect::<Result<Vec<ExecutionStep>, Error>>()                  *)
(* The iterator is lazy: an element is converted only once every element   *)
(* before it has converted, so `input` holds the elements handed out so    *)
(* far and the trace is whatever `input` is when the iterator ends.        *)

\* Iterator::enumerate: the index given to an element is the number of
\* elements handed out before it
enumerate_idx_FromOne(consumed) == consumed + 1

enumerate_idx(consumed) == consumed

Init ==
    /\ input = <<>>
    /\ phase = "ingest"
    /\ acc = <<>>
    /\ result = NoResult
    /\ text = <<>>
    /\ call = "none"
    /\ out = NoResult
    /\ dsteps = <<>>
    /\ ops = <<>>
    /\ dres = NoResult
    /\ views = NoResult
    /\ StepIdle /\ BusIdle /\ ParIdle

\* the iterator hands out the next element and it is converted
ConvertNext ==
    /\ phase = "ingest"
    /\ Len(input) < MaxTrace
    /\ \E parsed \in ParsedExecutionSteps :
         \E order \in IterOrders(parsed.memory) :
            LET r == try_from(parsed, enumerate_idx(Len(input)), order)
            IN  /\ input' = Append(input, parsed)
                /\ IF r.tag = "ok"
                   THEN /\ acc' = Append(acc, r.val)
                        /\ UNCHANGED <<phase, result>>
                   ELSE /\ acc' = <<>>
                        /\ result' = r
                        /\ phase' = "done"
    /\ UNCHANGED <<codecVars, deriveVars, stepVars, busVars, parVars>>

\* the iterator is exhausted: collect() returns the steps
Finish ==
    /\ phase = "ingest"
    /\ result' = Ok(acc)
    /\ phase' = "done"
    /\ UNCHANGED <<input, acc, codecVars, deriveVars, stepVars, busVars,
                   parVars>>

Next ==
    \/ ConvertNext
    \/ Finish

Spec == Init /\ [][Next]_vars

-----------------------------------------------------------------------------
(* The operation stream and the grouped views.                             *)
(*                                                                         *)
(* lib.rs declares Operation and sketches, in a comment, the construction  *)
(* of the grouped views; opcodes.rs declares Opcode::target_and_rw with    *)
(* an unimplemented!() body, and nothing in the crate emits an Operation.  *)
(* The per-opcode access lists and the walk that emits the stream are      *)
(* therefore taken from the design (sections 4.2 and 4.4); the views are   *)
(* taken from the commented construction in lib.rs.  In this part words,   *)
(* addresses and stack slots are written as the numbers they denote, and   *)
(* the top of a stack is its last element.                                 *)

\* lib.rs: Operation::Stack / Operation::Memory, with the `target` and `key`
\* the commented construction reads
Operation(target, rw, gc, key, value) ==
    [target |-> target, rw |-> rw, gc |-> gc, key |-> key, value |-> value]

Access(target, rw) == [target |-> target, rw |-> rw]

\* the ordered domain accesses of an opcode (section 4.2)
target_and_rw(op) ==
    CASE op = Opcode_ADD ->
            Ok(<<Access("Stack", "READ"), Access("Stack", "READ"),
                 Access("Stack", "WRITE")>>)
      [] op = Opcode_MLOAD ->
            Ok(<<Access("Stack", "READ"), Access("Memory", "READ"),
                 Access("Stack", "WRITE")>>)
      [] op = Opcode_MSTORE ->
            Ok(<<Access("Stack", "READ"), Access("Stack", "READ"),
                 Access("Memory", "WRITE")>>)
      [] op = Opcode_POP -> Ok(<<Access("Stack", "READ")>>)
      [] op = Opcode_PUSH1 -> Ok(<<Access("Stack", "WRITE")>>)
      [] op = Opcode_JUMPDEST -> Ok(<<>>)
      [] OTHER -> Err("UnknownOpcode")

\* a sparse snapshot read at an address: zero when the address is unset
MemAt(memory, a) == IF a \in DOMAIN memory THEN memory[a] ELSE 0

\* the state before the first step: empty stack, all-zero memory
InitialState == [stack |-> <<>>, memory |-> EmptyMap]

\* the counter after one operation has taken its number
NextGc_Same(gc) == gc

NextGc(gc) == gc + 1

\* One declared access (section 4.4, steps 2 to 4).  w is the walk so far:
\* the reconstructed stack and memory, the operands read, the operations
\* emitted, the counter, and whether every access could be made.
PerformAccess(a, w, prev, cur) ==
    CASE a = Access("Stack", "READ") ->
            IF w.stack = <<>> THEN [w EXCEPT !.ok = FALSE]
            ELSE LET v == w.stack[Len(w.stack)]
                 IN  [w EXCEPT
                        !.stack = SubSeq(w.stack, 1, Len(w.stack) - 1),
                        !.reads = Append(w.reads, v),
                        !.ops = Append(w.ops,
                                  Operation("Stack", "READ", w.gc,
                                            Len(w.stack), v)),
                        !.gc = NextGc(w.gc)]
      [] a = Access("Memory", "READ") ->
            LET k == w.reads[1]
            IN  [w EXCEPT
                   !.ops = Append(w.ops,
                             Operation("Memory", "READ", w.gc, k,
                                       MemAt(prev.memory, k))),
                   !.gc = NextGc(w.gc)]
      [] a = Access("Stack", "WRITE") ->
            IF Len(cur.stack) < Len(w.stack) + 1 THEN [w EXCEPT !.ok = FALSE]
            ELSE LET v == cur.stack[Len(w.stack) + 1]
                 IN  [w EXCEPT
                        !.stack = Append(w.stack, v),
                        !.ops = Append(w.ops,
                                  Operation("Stack", "WRITE", w.gc,
                                            Len(w.stack) + 1, v)),
                        !.gc = NextGc(w.gc)]
      [] a = Access("Memory", "WRITE") ->
            LET k == w.reads[1]
                v == MemAt(cur.memory, k)
            IN  [w EXCEPT
                   !.memory = BTreeInsert(w.memory, k, v),
                   !.ops = Append(w.ops,
                             Operation("Memory", "WRITE", w.gc, k, v)),
                   !.gc = NextGc(w.gc)]

RECURSIVE Walk(_, _, _, _, _)
Walk(accesses, i, w, prev, cur) ==
    IF i > Len(accesses) \/ ~w.ok THEN w
    ELSE Walk(accesses, i + 1, PerformAccess(accesses[i], w, prev, cur),
              prev, cur)

\* the reconstructed stack and memory equal the observed ones (step 5)
Consistent_Unchecked(w, cur) == w.ok

Consistent(w, cur) ==
    /\ w.ok
    /\ w.stack = cur.stack
    /\ \A a \in DOMAIN w.memory \cup DOMAIN cur.memory :
          MemAt(w.memory, a) = MemAt(cur.memory, a)

\* the pushed value equals the immediate of the instruction (step 6)
ImmediateMatches(w, cur) ==
    cur.opcode.assoc_value # None
        => /\ w.stack # <<>>
           /\ cur.opcode.assoc_value = Some(w.stack[Len(w.stack)])

\* the operations of one step, given its predecessor and the counter
derive_step(prev, cur, gc) ==
    LET entry == target_and_rw(cur.opcode.opcode)
        w == Walk(entry.val, 1,
                  [stack |-> prev.stack, memory |-> prev.memory,
                   reads |-> <<>>, ops |-> <<>>, gc |-> gc, ok |-> TRUE],
                  prev, cur)
    IN  IF entry.tag = "err" THEN entry
        ELSE IF ~(Consistent(w, cur) /\ ImmediateMatches(w, cur))
             THEN Err("TraceInconsistency")
        ELSE Ok(w.ops)

\* lib.rs (commented): the three maps, every key of the stream first bound
\* to an empty list in each, then every operation pushed, in stream order,
\* under its key in the map of its target.
Push_Front(list, op) == <<op>> \o list

Push(list, op) == Append(list, op)

EmptyViews(stream) ==
    LET keys == {stream[i].key : i \in 1..Len(stream)}
        empty == [k \in keys |-> <<>>]
    IN  [Memory |-> empty, Stack |-> empty, Storage |-> empty]

RECURSIVE PushAll(_, _, _)
PushAll(stream, i, v) ==
    IF i > Len(stream) THEN v
    ELSE LET op == stream[i]
         IN  PushAll(stream, i + 1,
                [v EXCEPT ![op.target][op.key] = Push(@, op)])

BusMapping_from(stream) == PushAll(stream, 1, EmptyViews(stream))

-----------------------------------------------------------------------------
(* Derivation of the operation stream from canonical steps, then the views *)

MaxSteps == 5
MaxDepth == 2

DeriveWords == {0, 1}

DeriveStacks == UNION {[1..n -> DeriveWords] : n \in 0..MaxDepth}

\* snapshots that list every address of the model, as the traces of the
\* crate's tests list their zero words
DeriveMemories == [DeriveWords -> DeriveWords]

DeriveInstructions ==
    {Instruction_new(op, None) :
        op \in {Opcode_JUMPDEST, Opcode_ADD, Opcode_MLOAD, Opcode_MSTORE,
                Opcode_POP, Opcode_STOP}}
      \cup {Instruction_new(Opcode_PUSH1, Some(v)) : v \in DeriveWords}

DeriveInit ==
    /\ phase = "derive"
    /\ dsteps = <<>>
    /\ ops = <<>>
    /\ dres = NoResult
    /\ views = NoResult
    /\ input = <<>>
    /\ acc = <<>>
    /\ result = NoResult
    /\ text = <<>>
    /\ call = "none"
    /\ out = NoResult
    /\ StepIdle /\ BusIdle /\ ParIdle

\* the state the next step is reconciled against
Predecessor == IF dsteps = <<>> THEN InitialState ELSE dsteps[Len(dsteps)]

\* the next step of the trace is walked: its operations join the stream, or
\* the derivation fails and delivers nothing
DeriveStep ==
    /\ phase = "derive"
    /\ Len(dsteps) < MaxSteps
    /\ \E memory \in DeriveMemories, stack \in DeriveStacks,
          opcode \in DeriveInstructions :
         LET cur == ExecutionStep_new(memory, stack, opcode, 0, Len(dsteps))
             r == derive_step(Predecessor, cur, Len(ops))
         IN  IF r.tag = "ok"
             THEN /\ dsteps' = Append(dsteps, cur)
                  /\ ops' = ops \o r.val
                  /\ UNCHANGED <<phase, dres>>
             ELSE /\ ops' = <<>>
                  /\ dres' = r
                  /\ phase' = "failed"
                  /\ UNCHANGED dsteps
    /\ UNCHANGED <<views, codecVars, input, acc, result, stepVars, busVars,
                   parVars>>

\* the trace has ended: the stream is complete and the views are built
BuildViews ==
    /\ phase = "derive"
    /\ dres' = Ok(ops)
    /\ views' = BusMapping_from(ops)
    /\ phase' = "built"
    /\ UNCHANGED <<dsteps, ops, codecVars, input, acc, result, stepVars,
                   busVars, parVars>>

DeriveNext ==
    \/ DeriveStep
    \/ BuildViews

SpecDerive == DeriveInit /\ [][DeriveNext]_vars

-----------------------------------------------------------------------------
(* One snapshot converted with a supplied counter:                         *)
(*   ExecutionStep::try_from((&parsed, GlobalCounter(c)))                  *)
(* The snapshot is converted MaxConversions times; each conversion reads   *)
(* an equal snapshot whose memory is a HashMap of its own, so the order in *)
(* which the entries are visited is chosen anew.                           *)

MaxConversions == 2

StepStackTexts == {<<"1">>, <<"0", "1">>, <<"f">>, <<"z", "z">>}

StepStacks == UNION {[1..n -> StepStackTexts] : n \in 0..MaxStack}

StepMemories ==
    {EmptyMap,
     (<<"0">> :> <<"1">>),
     (<<"0", "0">> :> <<"0", "1">>),
     (<<"0">> :> <<"1">>) @@ (<<"2", "0">> :> <<"f">>),
     (<<"0">> :> <<"1">>) @@ (<<"0", "0">> :> <<"f">>),
     (<<"0">> :> <<"z", "z">>),
     (OverAddrText :> <<"1">>),
     (OverAddrText :> <<"1">>) @@ (<<"0">> :> <<"z", "z">>)}

StepOpcodes ==
    {<<"J", "U", "M", "P", "D", "E", "S", "T">>,
     <<"P", "U", "S", "H", "1">> \o <<" ", "f">>,
     <<"P", "U", "S", "H", "1">> \o <<" ", "0", "f">>,
     <<"F", "O", "O">>,
     <<>>}

StepProgramCounters == {53, 54}

StepCounters == {0, 7}

StepSnapshots ==
    [memory : StepMemories, stack : StepStacks, opcode : StepOpcodes,
     pc : StepProgramCounters]

StepInit ==
    /\ phase = "step"
    /\ snap \in StepSnapshots
    /\ ctr \in StepCounters
    /\ conv = <<>>
    /\ CodecIdle /\ IngestIdle /\ DeriveIdle /\ BusIdle /\ ParIdle

ConvertSnapshot ==
    /\ phase = "step"
    /\ Len(conv) < MaxConversions
    /\ \E order \in IterOrders(snap.memory) :
           conv' = Append(conv, try_from(snap, ctr, order))
    /\ UNCHANGED <<snap, ctr, phase, codecVars, input, acc, result,
                   deriveVars, busVars, parVars>>

StepNext == ConvertSnapshot

SpecStep == StepInit /\ [][StepNext]_vars

-----------------------------------------------------------------------------
(* lib.rs: a BusMapping whose entries are the steps of an ingested trace,  *)
(* and the two operations its interface offers on them: Index and IndexMut *)

BusSnapshots ==
    {[memory |-> EmptyMap, stack |-> <<>>,
      opcode |-> <<"J", "U", "M", "P", "D", "E", "S", "T">>, pc |-> 53],
     [memory |-> (<<"0">> :> <<"1">>), stack |-> <<<<"f">>>>,
      opcode |-> <<"P", "U", "S", "H", "1">> \o <<" ", "f">>, pc |-> 54],
     [memory |-> (<<"0">> :> <<"1">>), stack |-> <<>>,
      opcode |-> <<"P", "O", "P">>, pc |-> 56]}

BusTraces == UNION {[1..n -> BusSnapshots] : n \in 1..MaxTrace}

\* the steps collect() returns for a trace whose every snapshot converts
IngestAll(trace) ==
    [k \in 1..Len(trace) |->
        try_from(trace[k], enumerate_idx(k - 1),
                 CHOOSE order \in IterOrders(trace[k].memory) : TRUE).val]

\* a step built by ExecutionStep::new, to be stored through IndexMut
BusNewSteps ==
    {ExecutionStep_new(EmptyMap, <<>>, Instruction_new(Opcode_STOP, None), 0, 0)}

BusInit ==
    /\ phase = "bus"
    /\ input \in BusTraces
    /\ acc = IngestAll(input)
    /\ result = Ok(acc)
    /\ entries = acc
    /\ got = NoResult
    /\ CodecIdle /\ DeriveIdle /\ StepIdle /\ ParIdle

\* bus_mapping[index]: a reference to the entry, or an abort out of range
BusIndex ==
    /\ phase = "bus"
    /\ \E index \in 0..Len(entries) :
           got' = IF index < Len(entries)
                  THEN Ok([index |-> index, step |-> entries[index + 1]])
                  ELSE Panic
    /\ UNCHANGED <<entries, phase, codecVars, input, acc, result, deriveVars,
                   stepVars, parVars>>

\* bus_mapping[index] = step: the entry is overwritten through the mutable
\* reference that index_mut returns, or the call aborts out of range
BusIndexMut ==
    /\ phase = "bus"
    /\ \E index \in 0..Len(entries),
           step \in BusNewSteps \cup {entries[k] : k \in DOMAIN entries} :
           IF index < Len(entries)
           THEN /\ entries' = [entries EXCEPT ![index + 1] = step]
                /\ UNCHANGED got
           ELSE /\ got' = Panic
                /\ UNCHANGED entries
    /\ UNCHANGED <<phase, codecVars, input, acc, result, deriveVars,
                   stepVars, parVars>>

BusNext ==
    \/ BusIndex
    \/ BusIndexMut

SpecBus == BusInit /\ [][BusNext]_vars

-----------------------------------------------------------------------------
(* Two traces ingested at once, each by its own                            *)
(*   trace.iter().enumerate().map(try_from).collect()                      *)
(* with the conversions of the two interleaved in any order.               *)

Traces == {1, 2}

ParSnapshots ==
    BusSnapshots
      \cup {[memory |-> EmptyMap, stack |-> <<<<"z", "z">>>>,
             opcode |-> <<"A", "D", "D">>, pc |-> 55]}

\* one count kept for both ingestions
Consumed_Shared(p, t) == Len(p[1].input) + Len(p[2].input)

\* the count of the enumerate adapter of ingestion t: the number of elements
\* its own iterator has handed out
Consumed(p, t) == Len(p[t].input)

ParInit ==
    /\ phase = "par"
    /\ par = [t \in Traces |->
                [input |-> <<>>, acc |-> <<>>, result |-> NoResult,
                 phase |-> "ingest"]]
    /\ CodecIdle /\ IngestIdle /\ DeriveIdle /\ StepIdle /\ BusIdle

\* ingestion t converts its next element
ParConvertNext(t) ==
    /\ phase = "par"
    /\ par[t].phase = "ingest"
    /\ Len(par[t].input) < MaxTrace
    /\ \E parsed \in ParSnapshots :
         \E order \in IterOrders(parsed.memory) :
           LET r == try_from(parsed, enumerate_idx(Consumed(par, t)), order)
           IN  par' = [par EXCEPT ![t] =
                   IF r.tag = "ok"
                   THEN [@ EXCEPT !.input = Append(@, parsed),
                                  !.acc = Append(@, r.val)]
                   ELSE [input |-> Append(@.input, parsed), acc |-> <<>>,
                         result |-> r, phase |-> "done"]]
    /\ UNCHANGED <<phase, codecVars, input, acc, result, deriveVars,
                   stepVars, busVars>>

\* the iterator of ingestion t is exhausted: collect() returns its steps
ParFinish(t) ==
    /\ phase = "par"
    /\ par[t].phase = "ingest"
    /\ par' = [par EXCEPT ![t] =
                 [@ EXCEPT !.result = Ok(par[t].acc), !.phase = "done"]]
    /\ UNCHANGED <<phase, codecVars, input, acc, result, deriveVars,
                   stepVars, busVars>>

ParNext ==
    \/ \E t \in Traces : ParConvertNext(t)
    \/ \E t \in Traces : ParFinish(t)

SpecPar == ParInit /\ [][ParNext]_vars

-----------------------------------------------------------------------------
(* Properties of the decoders *)

HexChars ==
    {"0", "1", "2", "3", "4", "5", "6", "7", "8", "9",
     "a", "b", "c", "d", "e", "f", "A", "B", "C", "D", "E", "F"}

\* the text is one or more base-16 digits
ValidHex(t) == t # <<>> /\ \A i \in 1..Len(t) : t[i] \in HexChars

\* the text has a mnemonic, and the mnemonic has no entry in the table
UnknownMnemonic(t) ==
    /\ split_whitespace(t) # <<>>
    /\ Opcode_from_str(split_whitespace(t)[1]).tag = "err"

\* the text carries a second word that is not base-16
BadImmediate(t) ==
    /\ Len(split_whitespace(t)) >= 2
    /\ ~ValidHex(split_whitespace(t)[2])

C8_WordWithinCanonicalWidth ==
    (call = "EvmWord" /\ out.tag = "ok") => Len(out.val) <= 2 * WordBytes

PushOpcodes == 96..127

\* C9 as stated: a decoded Instruction carries an immediate if and only if
\* its opcode is one of PUSH1..PUSH32.
C9_ImmediateIffPush ==
    (call = "Instruction" /\ out.tag = "ok")
        => ((out.val.assoc_value # None) <=> (out.val.opcode \in PushOpcodes))

-----------------------------------------------------------------------------
(* Properties of the ingestion *)

\* some order of the memory entries converts `parsed` with counter gc to `step`
ConvertsTo(parsed, gc, step) ==
    \E order \in IterOrders(parsed.memory) :
        try_from(parsed, gc, order) = Ok(step)

HasMalformedWord(parsed) ==
    \/ \E a \in DOMAIN parsed.memory : ~ValidHex(parsed.memory[a])
    \/ \E i \in 1..Len(parsed.stack) : ~ValidHex(parsed.stack[i])

\* C2 as stated: once a snapshot with a malformed memory value or stack word
\* has been handed out, the ingestion has returned the word-parsing error,
\* holds no steps, and has processed no element after it.
C2_MalformedWordAbortsWithError ==
    \A k \in 1..Len(input) :
        HasMalformedWord(input[k])
            => /\ phase = "done"
               /\ result = Err("EvmWordParsing")
               /\ acc = <<>>
               /\ k = Len(input)

\* the stack of the step before position k (the empty initial stack at 1)
StackBefore(steps, k) == IF k = 1 THEN <<>> ELSE steps[k - 1].stack

\* C3 as stated, for ADD: a trace is accepted only if every step labelled
\* ADD shows the declared stack effect against its predecessor, two words
\* popped and one pushed, so one word fewer than before.
C3_InconsistentAddNeverAccepted ==
    result.tag = "ok"
        => \A k \in 1..Len(result.val) :
              result.val[k].opcode.opcode = Opcode_ADD
                 => /\ Len(StackBefore(result.val, k)) >= 2
                    /\ Len(result.val[k].stack)
                          = Len(StackBefore(result.val, k)) - 1

\* C10 as stated: a trace is accepted only if, in every step whose
\* instruction carries an immediate and whose stack is not empty, the word
\* on top of the stack (at whichever end the top is) is the immediate.
C10_PushedValueIsImmediate ==
    result.tag = "ok"
        => \A k \in 1..Len(result.val) :
              LET step == result.val[k]
              IN  (step.opcode.assoc_value # None /\ step.stack # <<>>)
                     => \/ step.opcode.assoc_value = Some(Head(step.stack))
                        \/ step.opcode.assoc_value
                              = Some(step.stack[Len(step.stack)])

-----------------------------------------------------------------------------
(* Properties of the operation stream and of the grouped views *)

Domains == {"Memory", "Stack", "Storage"}

WritesBefore(list, i) == {j \in 1..(i - 1) : list[j].rw = "WRITE"}

NearestWrite(list, i) ==
    CHOOSE j \in WritesBefore(list, i) :
        \A h \in WritesBefore(list, i) : h <= j

-----------------------------------------------------------------------------
(* C11: for every opcode of the table, looking up its domain accesses       *)
(* returns an entry, neither a failure nor an abort, and in the entry's     *)
(* access list every read precedes every write.                             *)

ReadsBeforeWrites(list) ==
    \A i, j \in DOMAIN list :
        i < j => ~(list[i].rw = "WRITE" /\ list[j].rw = "READ")

C11_LookupReturnsReadsBeforeWrites ==
    call \in {"Opcode::target_and_rw", "Instruction::target_and_rw"}
        => out.tag = "ok" /\ ReadsBeforeWrites(out.val)

-----------------------------------------------------------------------------
(* C12: decoding the mnemonic of every named opcode constant, core or       *)
(* external, succeeds and returns that constant's byte value.               *)

C12_EveryConstantDecodesToItsByte ==
    call = "Opcode"
        => \A c \in OpcodeConstants : c.name = text => out = Ok(c.byte)

-----------------------------------------------------------------------------
(* C13: decoding an address returns an Address or an error value for every  *)
(* text, never an abort; it fails exactly when the text is not made of      *)
(* base-16 digits and accepts every hexadecimal value, however large.       *)

C13_AddressDecodingTotalAndUnbounded ==
    call = "MemAddress"
        => /\ out.tag \in {"ok", "err"}
           /\ out.tag = "err" <=> ~ValidHex(text)

-----------------------------------------------------------------------------
(* C19: instruction decoding is total: for every text, the empty and the    *)
(* whitespace-only ones included, it returns an Instruction or an error     *)
(* value and never aborts the program.                                      *)

C19_InstructionDecodingNeverAborts ==
    call = "Instruction" => out.tag \in {"ok", "err"}

-----------------------------------------------------------------------------
(* Properties of the conversion of one snapshot *)

\* every text of the snapshot decodes
WellFormed(parsed) ==
    /\ \A k \in DOMAIN parsed.memory :
          /\ MemAddress_from_str(k).tag = "ok"
          /\ EvmWord_from_str(parsed.memory[k]).tag = "ok"
    /\ \A i \in DOMAIN parsed.stack :
          EvmWord_from_str(parsed.stack[i]).tag = "ok"
    /\ Instruction_from_str(parsed.opcode).tag = "ok"

\* the (address, word) pairs of the input mapping, as numbers
NumericPairs(memory) ==
    {<<MemAddress_from_str(k).val, EvmWord_from_str(memory[k]).val>> :
        k \in DOMAIN memory}

\* the (address, word) pairs a memory map holds
MapPairs(map) == {<<a, map[a]>> : a \in DOMAIN map}

\* two keys of the mapping denote one address
AliasedKeys(memory) ==
    \E j, k \in DOMAIN memory :
        j # k /\ MemAddress_from_str(j) = MemAddress_from_str(k)

\* stack, instruction, program counter and counter of the step are those of
\* the snapshot, and a leading zero on a stack text changes nothing
RestOfStepAsInput(parsed, gc, step) ==
    /\ Len(step.stack) = Len(parsed.stack)
    /\ \A i \in DOMAIN parsed.stack :
          /\ step.stack[i] = EvmWord_from_str(parsed.stack[i]).val
          /\ step.stack[i] = EvmWord_from_str(<<"0">> \o parsed.stack[i]).val
    /\ step.opcode = Instruction_from_str(parsed.opcode).val
    /\ step.pc = parsed.pc
    /\ step.gc = gc

C17_SameSnapshotSameOutcome ==
    \A i, j \in DOMAIN conv : conv[i] = conv[j]

-----------------------------------------------------------------------------
(* Properties of the last step of an ingested trace *)

\* collect() returned the steps of a trace of at least n snapshots
Ingested(n) == phase = "done" /\ result.tag = "ok" /\ Len(result.val) >= n

-----------------------------------------------------------------------------
(* C16: once a BusMapping holds the ingested steps, no operation of its     *)
(* interface replaces or alters a step: the entries stay the steps that     *)
(* ingestion produced, and the step read at index i is the one produced     *)
(* for trace element i.                                                     *)

C16_EntriesNeverChange ==
    phase = "bus"
        => /\ entries = acc
           /\ \A k \in DOMAIN entries : ConvertsTo(input[k], k - 1, entries[k])
           /\ got.tag = "ok" => got.val.step = acc[got.val.index + 1]

-----------------------------------------------------------------------------
(* Properties of two interleaved ingestions *)

\* the conversion of element k of a trace that is ingested alone
ConvertAlone(trace, k) ==
    try_from(trace[k], enumerate_idx(k - 1),
             CHOOSE order \in IterOrders(trace[k].memory) : TRUE)

\* what collect() returns for a trace ingested alone: its steps, or the
\* outcome of the first conversion that fails
IngestAlone(trace) ==
    LET failing == {k \in 1..Len(trace) : ConvertAlone(trace, k).tag # "ok"}
    IN  IF failing = {} THEN Ok(IngestAll(trace))
        ELSE ConvertAlone(trace, CHOOSE k \in failing : \A j \in failing : k <= j)

\* C18: however the conversions of two traces are interleaved, each
\* ingestion holds and returns exactly the steps, with the sequence numbers,
\* that it produces when it runs alone: the step at position k carries
\* k - 1 whatever the other ingestion has consumed.
C18_InterleavedAsAlone ==
    phase = "par"
        => \A t \in Traces :
              /\ par[t].phase = "ingest"
                    => /\ par[t].acc = IngestAll(par[t].input)
                       /\ \A k \in DOMAIN par[t].acc : par[t].acc[k].gc = k - 1
              /\ par[t].phase = "done"
                    => par[t].result = IngestAlone(par[t].input)

\* both ingestions have returned two or more steps
C18_Witness ==
    /\ phase = "par"
    /\ \A t \in Traces :
          /\ par[t].phase = "done"
          /\ par[t].result.tag = "ok"
          /\ Len(par[t].result.val) >= 2

====
